---- MODULE Spec2Model ----
(***************************************************************************)
(* The six image filters of tarea1_pdi.py as a state machine.  An image is *)
(* a grid of (r, g, b) triples; a filter call copies the caller's image    *)
(* and then runs its pixel loops, one loop iteration per step.             *)
(***************************************************************************)
EXTENDS Integers, Sequences, FiniteSets, TLC

\* ------------------------------------------------------------------ bounds
MaxW == 3
MaxH == 3
MaxBlock == 3

\* ------------------------------------------------------------ input space
\* Pixels the input images are built from.
Palette ==
    << <<10, 20, 30>>, <<200, 100, 50>>, <<0, 0, 0>>,
       <<255, 255, 255>>, <<9, 6, 3>>, <<0, 3, 9>> >>

Strides == 0 .. 5

Positions(w, h) == (0 .. (w - 1)) \X (0 .. (h - 1))

\* The image whose pixel at (x, y) is Palette[(a*x + b*y + c) mod |Palette|].
PatternImage(w, h, a, b, c) ==
    [p \in Positions(w, h) |->
        Palette[((a * p[1] + b * p[2] + c) % Len(Palette)) + 1]]

NoImage == [p \in {} |-> <<0, 0, 0>>]

\* The identifiers a caller can pass; "sepia" and "alpha" stand for any value
\* outside the enumerations.
Methods == {"average", "weighted", "sepia"}
ValidMethods == {"average", "weighted"}
Channels == {"red", "green", "blue", "alpha"}
ValidChannels == {"red", "green", "blue"}
BlockSizes == 1 .. MaxBlock
Thresholds == {0, 7, 128, 255}
Deltas == {-255, -5, 0, 5, 255}

\* ----------------------------------------------------------------- helpers
Min(a, b) == IF a < b THEN a ELSE b
Max(a, b) == IF a > b THEN a ELSE b

\* A pixel store keeps 8 bits per channel: the value assigned through the
\* pixel access object is saturated to 0..255.
Clip8(v) == IF v < 0 THEN 0 ELSE IF v > 255 THEN 255 ELSE v
StorePixel(t) == <<Clip8(t[1]), Clip8(t[2]), Clip8(t[3])>>

\* ------------------------------------------- binary floating point (double)
\* A double d is held exactly as the pair <<n, e>> with d = n/10 + e*u, where
\* u = 2^-56 / 10.  The three weights are the doubles nearest to 0.3, 0.7, 0.1.
D03 == <<3, -8>>
D07 == <<7, -32>>
D01 == <<1, 4>>

Pow2Mod10(m) ==
    CASE m % 4 = 0 -> 6
      [] m % 4 = 1 -> 2
      [] m % 4 = 2 -> 4
      [] m % 4 = 3 -> 8

\* k = (binary exponent of n/10 + e*u) + 4, so that one unit in the last
\* place of the 53-bit significand is 10 * 2^k units u.
UlpExp(n, e) ==
    LET k == CHOOSE j \in 0 .. 13 : 5 * 2^j <= 8 * n /\ 8 * n < 5 * 2^(j + 1)
    IN  IF 5 * 2^k = 8 * n /\ e < 0 THEN k - 1 ELSE k

\* (n * 2^56 + e) mod (10 * 2^k): the value in units u, modulo 2^k ulps.
UnitsMod(n, e, k) ==
    (2^k * ((n * Pow2Mod10(56 - k)) % 10) + e) % (10 * 2^k)

\* Round to nearest, ties to even, at 53 bits.
RoundDouble(n, e) ==
    IF n = 0 THEN <<0, 0>>
    ELSE LET k == UlpExp(n, e)
             L == 10 * 2^k
             rem == UnitsMod(n, e, k)
             rem2 == UnitsMod(n, e, k + 1)
         IN  IF 2 * rem < L THEN <<n, e - rem>>
             ELSE IF 2 * rem > L THEN <<n, e - rem + L>>
             ELSE IF rem2 = rem THEN <<n, e - rem>>
             ELSE <<n, e - rem + L>>

FMul(c, i) == RoundDouble(c[1] * i, c[2] * i)
FAdd(a, b) == RoundDouble(a[1] + b[1], a[2] + b[2])
\* int(d) for d >= 0: truncation.
FloatToInt(d) ==
    IF d[1] % 10 = 0 /\ d[2] < 0 THEN (d[1] \div 10) - 1 ELSE d[1] \div 10

\* ------------------------------------------------------- per-pixel rules
AverageGray(r, g, b) == (r + g + b) \div 3
WeightedGray(r, g, b) ==
    FloatToInt(FAdd(FAdd(FMul(D03, r), FMul(D07, g)), FMul(D01, b)))

GrayValue(m, px) ==
    IF m = "average" THEN AverageGray(px[1], px[2], px[3])
    ELSE WeightedGray(px[1], px[2], px[3])

\* Variant: the threshold counted on the black side.
IsBlackInclusive(v, t) == v <= t
IsBlack(v, t) == v < t

\* Variant: complement to 256.
NegativeChannelOffByOne(v) == 256 - v
NegativeChannel(v) == 255 - v

\* Variant: an unknown channel blanks the pixel.
ChannelOnlyZero(ch, px) ==
    IF ch = "red" THEN <<px[1], 0, 0>>
    ELSE IF ch = "green" THEN <<0, px[2], 0>>
    ELSE IF ch = "blue" THEN <<0, 0, px[3]>>
    ELSE <<0, 0, 0>>

ChannelOnly(ch, px) ==
    IF ch = "red" THEN <<px[1], 0, 0>>
    ELSE IF ch = "green" THEN <<0, px[2], 0>>
    ELSE IF ch = "blue" THEN <<0, 0, px[3]>>
    ELSE px

\* Variant: 8-bit wrap-around instead of saturation.
ClampBrightnessWrap(v) == v % 256
ClampBrightness(v) == Max(0, Min(255, v))

\* Variant: the mean rounded up.
BlockAverageCeil(sum, cnt) == (sum + cnt - 1) \div cnt
BlockAverage(sum, cnt) == sum \div cnt

\* ---------------------------------------------------------------- ranges
\* range(n), range(lo, hi) and the successor of an index in a range.
\* Variant: a range that stops one short.
RangeShort(n) == 0 .. (n - 2)
Range(n) == 0 .. (n - 1)
RangeFrom(lo, hi) == lo .. (hi - 1)
\* Variant: a stride of two.
NextIndexSkip(i) == i + 2
NextIndex(i) == i + 1
\* min(x + block_size, width): the end of the block that starts at start.
BlockEnd(start, bs, limit) == Min(start + bs, limit)

\* ------------------------------------------------------------------ state
VARIABLES
    width, height,        \* image.size
    heap,                 \* the two image objects: original_image and image
    first_image,          \* history: the image the caller started with
    passed,               \* history: the image as it was when the filter was called
    filter,               \* the filter function running ("none" before a call)
    block_size, method, threshold, channel, brightness_delta,
    pc,                   \* position in the filter's code
    x, y, bx, by,         \* loop indices
    sums, count, avg,     \* mosaic accumulators (sum_r, sum_g, sum_b), count, averages
    reads, writes,        \* history: pixel reads / writes per position in this call
    last_write,           \* history: the last position and triple assigned
    gray_image,           \* history: the image grayscale_filter returned
    calls                 \* number of filter calls that have returned

vars ==
    <<width, height, heap, first_image, passed, filter, block_size, method,
      threshold, channel, brightness_delta, pc, x, y, bx, by, sums, count, avg,
      reads, writes, last_write, gray_image, calls>>

Pos == Positions(width, height)
ZeroGrid == [p \in Pos |-> 0]

\* Which image object a phase's pixel access reads, and which it writes.
PixelsRead(phase) ==
    IF phase \in {"sum", "gray"} THEN "original_image" ELSE "image"
\* Variant: the filter works on the caller's image, without a copy.
PixelsWrittenInPlace(phase) == "original_image"
PixelsWritten(phase) == "image"

Init ==
    /\ \E w \in 1 .. MaxW, h \in 1 .. MaxH, a \in Strides, b \in Strides,
          c \in 0 .. (Len(Palette) - 1) :
          /\ width = w
          /\ height = h
          /\ heap = [original_image |-> PatternImage(w, h, a, b, c),
                     image |-> NoImage]
          /\ first_image = PatternImage(w, h, a, b, c)
    /\ passed = NoImage
    /\ filter = "none"
    /\ block_size = 10
    /\ method = "average"
    /\ threshold = 128
    /\ channel = "red"
    /\ brightness_delta = 0
    /\ pc = "idle"
    /\ x = 0 /\ y = 0 /\ bx = 0 /\ by = 0
    /\ sums = <<0, 0, 0>> /\ count = 0 /\ avg = <<0, 0, 0>>
    /\ reads = NoImage /\ writes = NoImage
    /\ last_write = <<>>
    /\ gray_image = NoImage
    /\ calls = 0

\* Entry of a filter function: image = original_image.copy(), the loads and
\* the start of the first loop.
Enter(f, phase) ==
    /\ pc = "idle"
    /\ filter' = f
    /\ passed' = heap.original_image
    /\ heap' = [heap EXCEPT !.image = heap.original_image]
    /\ pc' = phase
    /\ x' = 0 /\ y' = 0 /\ bx' = 0 /\ by' = 0
    /\ sums' = <<0, 0, 0>> /\ count' = 0 /\ avg' = <<0, 0, 0>>
    /\ reads' = ZeroGrid /\ writes' = ZeroGrid
    /\ last_write' = <<>>
    /\ gray_image' = NoImage
    /\ UNCHANGED <<width, height, first_image, calls>>

CallMosaic ==
    \E b \in BlockSizes :
        /\ Enter("mosaic_filter", "sum")
        /\ block_size' = b
        /\ UNCHANGED <<method, threshold, channel, brightness_delta>>

CallGrayscale ==
    \E m \in Methods :
        /\ Enter("grayscale_filter", "gray")
        /\ method' = m
        /\ UNCHANGED <<block_size, threshold, channel, brightness_delta>>

CallHighContrast ==
    \E m \in Methods, t \in Thresholds :
        /\ Enter("high_contrast_filter", "gray")
        /\ method' = m
        /\ threshold' = t
        /\ UNCHANGED <<block_size, channel, brightness_delta>>

CallNegative ==
    /\ Enter("negative_filter", "negative")
    /\ UNCHANGED <<block_size, method, threshold, channel, brightness_delta>>

CallChannelOnly ==
    \E ch \in Channels :
        /\ Enter("rgb_filter_channel_only", "rgb")
        /\ channel' = ch
        /\ UNCHANGED <<block_size, method, threshold, brightness_delta>>

CallBrightness ==
    \E d \in Deltas :
        /\ Enter("brightness_filter", "brightness")
        /\ brightness_delta' = d
        /\ UNCHANGED <<block_size, method, threshold, channel>>

\* pixels[x, y] = t through the pixel access of the phase, and the advance of
\* "for y in range(height): for x in range(width)" to the next iteration;
\* after the last one the loop is left for phase `after`.
Assign(phase, p, t) ==
    /\ heap' = [heap EXCEPT ![PixelsWritten(phase)][p] = StorePixel(t)]
    /\ writes' = [writes EXCEPT ![p] = @ + 1]
    /\ last_write' = <<p, t>>

SweepNext(after) ==
    IF NextIndex(x) \in Range(width)
    THEN x' = NextIndex(x) /\ y' = y /\ pc' = pc
    ELSE IF NextIndex(y) \in Range(height)
    THEN x' = 0 /\ y' = NextIndex(y) /\ pc' = pc
    ELSE x' = x /\ y' = y /\ pc' = after

GrayRule(px) == LET v == GrayValue(method, px) IN <<v, v, v>>
ThresholdRule(px) ==
    IF IsBlack(px[1], threshold) THEN <<0, 0, 0>> ELSE <<255, 255, 255>>
NegativeRule(px) ==
    <<NegativeChannel(px[1]), NegativeChannel(px[2]), NegativeChannel(px[3])>>
ChannelRule(px) == ChannelOnly(channel, px)
BrightnessRule(px) ==
    <<ClampBrightness(px[1] + brightness_delta),
      ClampBrightness(px[2] + brightness_delta),
      ClampBrightness(px[3] + brightness_delta)>>

\* The triple a sweep assigns where it has read px.
PhaseRule(phase, px) ==
    CASE phase = "gray" -> GrayRule(px)
      [] phase = "threshold" -> ThresholdRule(px)
      [] phase = "negative" -> NegativeRule(px)
      [] phase = "rgb" -> ChannelRule(px)
      [] phase = "brightness" -> BrightnessRule(px)

\* One iteration of a whole-image sweep in `phase`: it reads the pixel at
\* (x, y) and assigns the phase's rule of it to (x, y).
SweepStep(phase, after) ==
    /\ pc = phase
    /\ x \in Range(width) /\ y \in Range(height)
    /\ LET p == <<x, y>>
           px == heap[PixelsRead(phase)][p]
       IN  /\ reads' = [reads EXCEPT ![p] = @ + 1]
           /\ Assign(phase, p, PhaseRule(phase, px))
    /\ SweepNext(after)
    /\ UNCHANGED <<width, height, first_image, passed, filter, block_size,
                   method, threshold, channel, brightness_delta, bx, by, sums,
                   count, avg, gray_image, calls>>

GrayscaleStep == SweepStep("gray", "gray_return")
HighContrastStep == SweepStep("threshold", "return")
NegativeStep == SweepStep("negative", "return")
ChannelOnlyStep == SweepStep("rgb", "return")
BrightnessStep == SweepStep("brightness", "return")

\* grayscale_filter returns to high_contrast_filter, which starts its own sweep
\* over the returned image.
HighContrastEnter ==
    /\ pc = "gray_return"
    /\ filter = "high_contrast_filter"
    /\ gray_image' = heap.image
    /\ pc' = "threshold"
    /\ x' = 0 /\ y' = 0
    /\ UNCHANGED <<width, height, heap, first_image, passed, filter, block_size,
                   method, threshold, channel, brightness_delta, bx, by, sums,
                   count, avg, reads, writes, last_write, calls>>

\* return image
ReturnFrame ==
    /\ pc' = "done"
    /\ calls' = calls + 1
    /\ UNCHANGED <<width, height, heap, first_image, passed, filter, block_size,
                   method, threshold, channel, brightness_delta, x, y, bx, by,
                   sums, count, avg, reads, writes, last_write, gray_image>>

Return == pc = "return" /\ ReturnFrame

GrayscaleReturn ==
    pc = "gray_return" /\ filter = "grayscale_filter" /\ ReturnFrame

\* ------------------------------------------------------------------ mosaic
BlockXs == RangeFrom(x, BlockEnd(x, block_size, width))
BlockYs == RangeFrom(y, BlockEnd(y, block_size, height))

\* Advance of "for by in range(..): for bx in range(..)"; after the last
\* iteration the inner loops are left for phase `after`.
InnerNext(after) ==
    IF NextIndex(bx) \in BlockXs
    THEN bx' = NextIndex(bx) /\ by' = by /\ pc' = pc
    ELSE IF NextIndex(by) \in BlockYs
    THEN bx' = x /\ by' = NextIndex(by) /\ pc' = pc
    ELSE bx' = bx /\ by' = by /\ pc' = after

\* Lines 30-34: one pixel of the block is added to the sums.
MosaicAccumulate ==
    /\ pc = "sum"
    /\ bx \in BlockXs /\ by \in BlockYs
    /\ LET p == <<bx, by>>
           px == heap[PixelsRead("sum")][p]
       IN  /\ sums' = <<sums[1] + px[1], sums[2] + px[2], sums[3] + px[3]>>
           /\ count' = count + 1
           /\ reads' = [reads EXCEPT ![p] = @ + 1]
    /\ InnerNext("avg")
    /\ UNCHANGED <<width, height, heap, first_image, passed, filter, block_size,
                   method, threshold, channel, brightness_delta, x, y, avg,
                   writes, last_write, gray_image, calls>>

\* Lines 36-38, and the start of the second pair of inner loops.
MosaicAverage ==
    /\ pc = "avg"
    /\ avg' = <<BlockAverage(sums[1], count), BlockAverage(sums[2], count),
                BlockAverage(sums[3], count)>>
    /\ pc' = "assign"
    /\ bx' = x /\ by' = y
    /\ UNCHANGED <<width, height, heap, first_image, passed, filter, block_size,
                   method, threshold, channel, brightness_delta, x, y, sums,
                   count, reads, writes, last_write, gray_image, calls>>

\* Line 43 for one pixel of the block.  After the block's last pixel the outer
\* loops "for y in range(0, height, block_size): for x in range(0, width,
\* block_size)" advance and the sums start again from 0 (lines 24-25).
MosaicAssign ==
    /\ pc = "assign"
    /\ bx \in BlockXs /\ by \in BlockYs
    /\ Assign("assign", <<bx, by>>, avg)
    /\ IF NextIndex(bx) \in BlockXs \/ NextIndex(by) \in BlockYs
       THEN /\ InnerNext("assign")
            /\ UNCHANGED <<x, y, sums, count>>
       ELSE IF x + block_size \in Range(width)
       THEN /\ x' = x + block_size /\ y' = y
            /\ bx' = x + block_size /\ by' = y
            /\ sums' = <<0, 0, 0>> /\ count' = 0
            /\ pc' = "sum"
       ELSE IF y + block_size \in Range(height)
       THEN /\ x' = 0 /\ y' = y + block_size
            /\ bx' = 0 /\ by' = y + block_size
            /\ sums' = <<0, 0, 0>> /\ count' = 0
            /\ pc' = "sum"
       ELSE /\ pc' = "return"
            /\ UNCHANGED <<x, y, bx, by, sums, count>>
    /\ UNCHANGED <<width, height, first_image, passed, filter, block_size,
                   method, threshold, channel, brightness_delta, avg, reads,
                   gray_image, calls>>

\* ----------------------------------------------------------- specification
Next ==
    \/ CallMosaic
    \/ CallGrayscale
    \/ CallHighContrast
    \/ CallNegative
    \/ CallChannelOnly
    \/ CallBrightness
    \/ MosaicAccumulate
    \/ MosaicAverage
    \/ MosaicAssign
    \/ GrayscaleStep
    \/ GrayscaleReturn
    \/ HighContrastEnter
    \/ HighContrastStep
    \/ NegativeStep
    \/ ChannelOnlyStep
    \/ BrightnessStep
    \/ Return

Spec == Init /\ [][Next]_vars

\* The caller passes the image a first call returned to a second call.
Reapply ==
    /\ pc = "done"
    /\ calls = 1
    /\ heap' = [original_image |-> heap.image, image |-> NoImage]
    /\ pc' = "idle"
    /\ UNCHANGED <<width, height, first_image, passed, filter, block_size,
                   method, threshold, channel, brightness_delta, x, y, bx, by,
                   sums, count, avg, reads, writes, last_write, gray_image,
                   calls>>

NextTwice ==
    \/ CallNegative
    \/ NegativeStep
    \/ Return
    \/ Reapply

SpecTwice == Init /\ [][NextTwice]_vars

\* ------------------------------------------------------------- properties
Done == pc = "done"
Black == <<0, 0, 0>>
White == <<255, 255, 255>>
Chan == 1 .. 3

\* The block of the mosaic grid (anchored at (0,0), step block_size, cut at the
\* image boundary) that holds position p.
BlockOf(p) ==
    {q \in Pos : /\ q[1] \div block_size = p[1] \div block_size
                 /\ q[2] \div block_size = p[2] \div block_size}

RECURSIVE SumChannel(_, _, _)
SumChannel(img, S, c) ==
    IF S = {} THEN 0
    ELSE LET q == CHOOSE q \in S : TRUE
         IN  img[q][c] + SumChannel(img, S \ {q}, c)

BlockMean(img, p) ==
    [c \in Chan |-> SumChannel(img, BlockOf(p), c) \div Cardinality(BlockOf(p))]

\* C1: mosaic_filter gives every pixel of a block (full or truncated) the
\* triple floor(sum / count) of the source pixels of that block, per channel;
\* count is the number of pixels of the block and is never 0.
C1_MosaicBlockMean ==
    filter = "mosaic_filter" =>
        /\ pc = "avg" => count > 0 /\ count = Cardinality(BlockOf(<<x, y>>))
        /\ Done => \A p \in Pos : heap.image[p] = BlockMean(passed, p)

C1_Witness ==
    /\ Done /\ filter = "mosaic_filter"
    /\ block_size < width /\ width % block_size # 0
    /\ \E p \in Pos :
          /\ Cardinality(BlockOf(p)) = block_size * block_size
          /\ SumChannel(passed, BlockOf(p), 1) % Cardinality(BlockOf(p)) # 0
          /\ heap.image[p] # passed[p]

\* C2: every channel value a filter computes and assigns, for parameters
\* inside the constraint table, is an integer in 0..255.
C2_WrittenInRange ==
    (last_write # <<>> /\ method \in ValidMethods /\ channel \in ValidChannels)
        => \A c \in Chan : last_write[2][c] \in 0 .. 255

\* C3: high_contrast_filter gives black exactly where the image returned by
\* grayscale_filter is below the threshold, and white elsewhere.
C3_HighContrastThreshold ==
    (Done /\ filter = "high_contrast_filter" /\ method \in ValidMethods) =>
        \A p \in Pos :
            heap.image[p] =
                IF gray_image[p][1] < threshold THEN Black ELSE White

C3_Witness ==
    /\ Done /\ filter = "high_contrast_filter" /\ method \in ValidMethods
    /\ \E p \in Pos : gray_image[p][1] = threshold /\ heap.image[p] = White
    /\ \E p \in Pos : gray_image[p][1] < threshold /\ heap.image[p] = Black

\* floor(0.3 r + 0.7 g + 0.1 b) and floor((r + g + b) / 3) in exact arithmetic.
ExactGray(m, px) ==
    IF m = "average" THEN (px[1] + px[2] + px[3]) \div 3
    ELSE (3 * px[1] + 7 * px[2] + px[3]) \div 10

\* C4: grayscale_filter assigns (gray, gray, gray) with gray the floor of the
\* average, or of the weighted sum 0.3 r + 0.7 g + 0.1 b, of the input pixel.
C4_GrayAssigned ==
    (filter = "grayscale_filter" /\ last_write # <<>> /\ method \in ValidMethods)
        => LET v == ExactGray(method, passed[last_write[1]])
           IN  last_write[2] = <<v, v, v>>

InvalidCall ==
    \/ filter \in {"grayscale_filter", "high_contrast_filter"}
          /\ method \notin ValidMethods
    \/ filter = "rgb_filter_channel_only" /\ channel \notin ValidChannels

\* C5 as stated: a call with an identifier outside the enumeration produces
\* no result image.
C5_InvalidRejected == InvalidCall => ~Done

\* C5: a call with an identifier outside the enumeration is not rejected; a
\* method other than "average" is treated as "weighted", an unknown channel
\* returns an image equal to the input.
C5_InvalidFallback ==
    (Done /\ InvalidCall) =>
        \A p \in Pos :
            LET w == Clip8(WeightedGray(passed[p][1], passed[p][2], passed[p][3]))
            IN  heap.image[p] =
                    CASE filter = "rgb_filter_channel_only" -> passed[p]
                      [] filter = "grayscale_filter" -> <<w, w, w>>
                      [] filter = "high_contrast_filter" ->
                            IF w < threshold THEN Black ELSE White

C5_Witness ==
    /\ Done /\ filter = "rgb_filter_channel_only" /\ channel \notin ValidChannels
    /\ heap.image = passed
    /\ \E p \in Pos : passed[p][1] > 0 /\ passed[p][2] > 0 /\ passed[p][3] > 0

\* C6: brightness_filter sets each channel to max(0, min(255, input + delta));
\* delta 0 is the identity, 255 saturates every channel > 0, -255 blanks.
C6_BrightnessSaturates ==
    (Done /\ filter = "brightness_filter") =>
        /\ \A p \in Pos, c \in Chan :
              LET v == passed[p][c] + brightness_delta
              IN  heap.image[p][c] = IF v < 0 THEN 0 ELSE IF v > 255 THEN 255 ELSE v
        /\ brightness_delta = 0 => heap.image = passed
        /\ brightness_delta = 255 =>
              \A p \in Pos, c \in Chan : passed[p][c] > 0 => heap.image[p][c] = 255
        /\ brightness_delta = -255 =>
              \A p \in Pos, c \in Chan : heap.image[p][c] = 0

C6_Witness ==
    /\ Done /\ filter = "brightness_filter" /\ brightness_delta = 5
    /\ \E p \in Pos, c \in Chan : passed[p][c] = 255 /\ heap.image[p][c] = 255
    /\ \E p \in Pos, c \in Chan : passed[p][c] = 200 /\ heap.image[p][c] = 205

\* C7: negative_filter maps every channel v to 255 - v, and applied to its own
\* result it gives back the image it started from.
C7_NegativeInvolution ==
    (Done /\ filter = "negative_filter") =>
        /\ \A p \in Pos, c \in Chan : heap.image[p][c] = 255 - passed[p][c]
        /\ calls = 2 => heap.image = first_image

C7_Witness ==
    /\ Done /\ filter = "negative_filter" /\ calls = 2
    /\ heap.image = first_image
    /\ passed # first_image
    /\ width > 1 /\ height > 1

\* C8: the image the caller passed in is unchanged during and after every
\* filter call, and the mosaic sums are those of the passed image.
C8_SourceUnchanged ==
    filter # "none" =>
        /\ heap.original_image = passed
        /\ (filter = "mosaic_filter" /\ pc = "avg") =>
              \A c \in Chan : sums[c] = SumChannel(passed, BlockOf(<<x, y>>), c)

C8_Witness ==
    /\ Done /\ filter = "mosaic_filter" /\ block_size = 2 /\ width = 3
    /\ heap.original_image = passed
    /\ \E p \in Pos : heap.image[p] # heap.original_image[p]

\* The value the filter's rule defines for position p of the passed image.
RuleValue(p) ==
    CASE filter = "mosaic_filter" -> BlockMean(passed, p)
      [] filter = "grayscale_filter" -> GrayRule(passed[p])
      [] filter = "high_contrast_filter" ->
            ThresholdRule(StorePixel(GrayRule(passed[p])))
      [] filter = "negative_filter" -> NegativeRule(passed[p])
      [] filter = "rgb_filter_channel_only" -> ChannelRule(passed[p])
      [] filter = "brightness_filter" -> BrightnessRule(passed[p])

\* C9: the returned image has the positions of the passed image, and every
\* one of them has been assigned the value of the filter's rule (as stored in
\* 8 bits per channel).
C9_SameSizeAllPositions ==
    Done =>
        /\ DOMAIN heap.image = DOMAIN passed
        /\ DOMAIN heap.image = Positions(width, height)
        /\ \A p \in Pos :
              writes[p] >= 1 /\ heap.image[p] = StorePixel(RuleValue(p))

C9_Witness ==
    /\ Done /\ width = MaxW /\ height = MaxH
    /\ filter = "brightness_filter"
    /\ \A p \in Pos : writes[p] >= 1 /\ heap.image[p] # passed[p]

\* C10 as stated: in one call no position is read more than once and no
\* output cell is written more than once.
C10_VisitedOnce ==
    \A p \in DOMAIN writes : writes[p] <= 1 /\ reads[p] <= 1

Sweeps == IF filter = "high_contrast_filter" THEN 2 ELSE 1

\* C10: in one call every position is read once and its output cell written
\* once, except in high_contrast_filter, whose two sweeps (grayscale, then
\* threshold) read every position twice and write every cell twice.
C10_VisitCounts ==
    /\ \A p \in DOMAIN writes : writes[p] <= Sweeps /\ reads[p] <= Sweeps
    /\ Done => \A p \in Pos : writes[p] = Sweeps /\ reads[p] = Sweeps

C10_Witness ==
    /\ Done /\ filter = "high_contrast_filter"
    /\ width * height > 1
    /\ \A p \in Pos : writes[p] = 2 /\ reads[p] = 2

====
